---- MODULE Spec2Model ----
(***************************************************************************)
(* Model of the embedding index (services_vector_store.HNSWVectorStore on  *)
(* top of hnswlib.Index, cosine space) and of the retrieval orchestrator   *)
(* (orchestrators_master.MasterOrchestrator.process) as it is driven by    *)
(* the /query endpoint of main.py.                                         *)
(*                                                                         *)
(* Two specifications share the state of the store:                        *)
(*   SpecStore  the public operations add and search of the store, called  *)
(*              with arbitrary arguments;                                  *)
(*   SpecProc   concurrent /query requests, each running process() on the  *)
(*              process-wide store.                                        *)
(* Python's None is the empty tuple: no vector of the model has length 0.  *)
(***************************************************************************)
EXTENDS Integers, Sequences, FiniteSets, TLC

\* ------------------------------------------------------------------ bounds
\* Scaled-down program constants (the program's values are in comments).
dim == 2                  \* HNSWVectorStore(dim=384)
max_elements == 2         \* HNSWVectorStore(max_elements=5000)
top_k == 2                \* process(..., top_k=5)
max_videos_for_llm == 2   \* getattr(settings, "max_videos_for_llm", 12)
\* Bounds of the exploration.
MaxIds == 3               \* SpecStore stops calling add once len(ids) = MaxIds
MaxK == 2                 \* largest k passed to search in SpecStore
MaxVideos == 3            \* longest video list a request receives
MaxRequests == 2          \* number of /query requests

None == << >>

\* ------------------------------------------------------------ vector maths
Abs(x) == IF x < 0 THEN -x ELSE x

RECURSIVE SumTo(_, _)
SumTo(f, n) == IF n = 0 THEN 0 ELSE f[n] + SumTo(f, n - 1)

\* The vector of length n whose only non-zero component is m, at position p.
AxisVector(n, p, m) == [i \in 1..n |-> IF i = p THEN m ELSE 0]

\* The Euclidean norm of an axis-aligned vector is the sum of the absolute
\* values of its components.
Norm(v) == SumTo([i \in 1..Len(v) |-> Abs(v[i])], Len(v))

\* normalize_vector leaving the vector as it is.
normalize_vector_none(v) == v

\* hnswlib normalises every vector of a cosine index; the zero vector stays 0.
normalize_vector(v) ==
    LET n == Norm(v)
    IN IF n = 0 THEN v ELSE [i \in 1..Len(v) |-> v[i] \div n]

Dot(a, b) == SumTo([i \in 1..Len(a) |-> a[i] * b[i]], Len(a))

\* Cosine distance of hnswlib: 1 - inner product of the normalised vectors.
cosine_distance(a, b) == 1 - Dot(normalize_vector(a), normalize_vector(b))

\* ---------------------------------------------------------------- hnswlib
NoExc == "ok"
DimensionMismatch == "Wrong dimensionality of the vectors"
CapacityExceeded == "The number of elements exceeds the specified limit"
NotContiguous == "Cannot return the results in a contiguous 2D array"

Labels(idx) == { idx[p].label : p \in 1..Len(idx) }

\* add_items with the capacity test off by one.
add_items_late_limit(idx, vec, label) ==
    IF Len(vec) # dim
    THEN [index |-> idx, exc |-> DimensionMismatch]
    ELSE IF Len(idx) > max_elements
    THEN [index |-> idx, exc |-> CapacityExceeded]
    ELSE [index |-> Append(idx, [label |-> label, vec |-> vec]), exc |-> NoExc]

\* Index.add_items(data, ids) for one row: the shape check comes first, an
\* existing label is updated in place, a new label needs a free slot.
add_items(idx, vec, label) ==
    IF Len(vec) # dim
    THEN [index |-> idx, exc |-> DimensionMismatch]
    ELSE IF label \in Labels(idx)
    THEN [index |-> [p \in 1..Len(idx) |->
                       IF idx[p].label = label
                       THEN [label |-> label, vec |-> normalize_vector(vec)]
                       ELSE idx[p]],
          exc |-> NoExc]
    ELSE IF Len(idx) >= max_elements
    THEN [index |-> idx, exc |-> CapacityExceeded]
    ELSE [index |-> Append(idx, [label |-> label, vec |-> normalize_vector(vec)]),
          exc |-> NoExc]

\* HitBefore with the distances compared the wrong way round.
HitBefore_farthest_first(h1, h2) ==
    \/ h1.dist > h2.dist
    \/ h1.dist = h2.dist /\ h1.label < h2.label

\* Order of the rows knn_query returns: ascending (distance, label).
HitBefore(h1, h2) ==
    \/ h1.dist < h2.dist
    \/ h1.dist = h2.dist /\ h1.label < h2.label

RECURSIVE SortHits(_)
SortHits(S) ==
    IF S = {} THEN << >>
    ELSE LET m == CHOOSE h \in S : \A o \in S \ {h} : HitBefore(h, o)
         IN <<m>> \o SortHits(S \ {m})

Hits(idx, vec) ==
    { [label |-> idx[p].label, dist |-> cosine_distance(idx[p].vec, vec)] :
        p \in 1..Len(idx) }

\* Index.knn_query(data, k) for one row.  The set of results the library can
\* produce: which of several equally distant entries make the cut is left to
\* the graph search, the k nearest are otherwise exact at these sizes.  Fewer
\* than k elements cannot fill the result array and raise.
knn_query(idx, vec, k) ==
    IF Len(vec) # dim
    THEN { [exc |-> DimensionMismatch, hits |-> << >>] }
    ELSE IF Len(idx) < k
    THEN { [exc |-> NotContiguous, hits |-> << >>] }
    ELSE LET H == Hits(idx, vec)
         IN { [exc |-> NoExc, hits |-> SortHits(S)] :
                S \in { T \in SUBSET H :
                          /\ Cardinality(T) = k
                          /\ \A h \in T : \A o \in H \ T : h.dist <= o.dist } }

\* pybind11 refuses a negative integer for an unsigned parameter.
TypeError == "incompatible function arguments"

\* hnswlib.Index(space='cosine', dim=D) followed by init_index(max_elements=C):
\* the exception, if any.  The dimension is not examined; the capacity is a
\* size_t.  (D >= 0 and C # 0 only: what a negative dimension or a capacity
\* of 0 gives depends on the allocator.)
init_index(D, C) == IF C < 0 THEN TypeError ELSE NoExc

\* ------------------------------------------------------------------ state
VARIABLES
    instance,   \* _vector_store_instance is not None
    ids,        \* HNSWVectorStore.ids: external identifiers, position = label
    index,      \* the elements of hnswlib.Index: <<[label, vec]>> as inserted
    lastCall,   \* the last call of add or search: arguments, exception, result
    req,        \* per /query request: position and locals of its handler
    loop        \* the request whose handler the event loop is running, or 0

vars == <<instance, ids, index, lastCall, req, loop>>

\* -------------------------------------------------------- HNSWVectorStore
\* add with the label taken from the element count of the index.
add_labels_by_count(store_ids, store_index, embedding, video_id) ==
    IF embedding = None
    THEN [ids |-> store_ids, index |-> store_index, exc |-> NoExc]
    ELSE LET idx == Len(store_index)
             r == add_items(store_index, embedding, idx)
         IN [ids |-> Append(store_ids, video_id), index |-> r.index, exc |-> r.exc]

\* HNSWVectorStore.add: the identifier is appended before add_items runs.
add(store_ids, store_index, embedding, video_id) ==
    IF embedding = None
    THEN [ids |-> store_ids, index |-> store_index, exc |-> NoExc]
    ELSE LET idx == Len(store_ids)
             r == add_items(store_index, embedding, idx)
         IN [ids |-> Append(store_ids, video_id), index |-> r.index, exc |-> r.exc]

RECURSIVE Results(_, _)
\* The loop of search over zip(labels[0], distances[0]).
Results(store_ids, hits) ==
    IF hits = << >> THEN << >>
    ELSE LET h == Head(hits)
         IN (IF h.label < Len(store_ids)
             THEN << <<store_ids[h.label + 1], h.dist>> >>
             ELSE << >>) \o Results(store_ids, Tail(hits))

\* HNSWVectorStore.search: the set of outcomes [exc, results].
search(store_ids, store_index, embedding, k) ==
    IF embedding = None \/ Len(store_ids) = 0
    THEN { [exc |-> NoExc, results |-> << >>] }
    ELSE { [exc |-> q.exc, results |-> Results(store_ids, q.hits)] :
             q \in knn_query(store_index, embedding, k) }

NoCall == [op |-> "none", embedding |-> None, video_id |-> "", k |-> 0,
           exc |-> NoExc, results |-> << >>, dim |-> 0, max_elements |-> 0]

AddCall(embedding, video_id, exc) ==
    [op |-> "add", embedding |-> embedding, video_id |-> video_id, k |-> 0,
     exc |-> exc, results |-> << >>, dim |-> 0, max_elements |-> 0]

SearchCall(embedding, k, exc, results) ==
    [op |-> "search", embedding |-> embedding, video_id |-> "", k |-> k,
     exc |-> exc, results |-> results, dim |-> 0, max_elements |-> 0]

InitCall(D, C, exc) ==
    [op |-> "init", embedding |-> None, video_id |-> "", k |-> 0,
     exc |-> exc, results |-> << >>, dim |-> D, max_elements |-> C]

\* ------------------------------------------------------------- SpecStore
VideoIds == {"a", "b", "c"}

\* Arguments of the direct calls: vectors of the right length (two of them
\* in the same direction), a vector one component short, a vector one
\* component long, and None.
CallVectors ==
    { AxisVector(dim, 1, 1), AxisVector(dim, 1, 2), AxisVector(dim, 2, 1),
      AxisVector(dim - 1, 1, 1), AxisVector(dim + 1, 1, 1), None }

CallIds == {"a", "b"}

NoRequest == [pc |-> "idle", channel_title |-> << >>, videos |-> << >>,
              videos_sample |-> << >>, i |-> 1, stored |-> 0, emb |-> None,
              seed_neighbors |-> << >>, exc |-> NoExc,
              inserted |-> << >>, skipped |-> {}, status |-> 0,
              text |-> << >>, backend |-> "none",
              llm |-> "none", result |-> "none"]

Requests == 1..MaxRequests

InitStore ==
    /\ instance = TRUE
    /\ ids = << >>
    /\ index = << >>
    /\ lastCall = NoCall
    /\ req = [r \in Requests |-> NoRequest]
    /\ loop = 0

StoreAdd ==
    \E embedding \in CallVectors, video_id \in CallIds :
        /\ Len(ids) < MaxIds
        /\ LET r == add(ids, index, embedding, video_id)
           IN /\ ids' = r.ids
              /\ index' = r.index
              /\ lastCall' = AddCall(embedding, video_id, r.exc)
        /\ UNCHANGED <<instance, req, loop>>

StoreSearch ==
    \E embedding \in CallVectors, k \in 0..MaxK :
        \E r \in search(ids, index, embedding, k) :
            /\ lastCall' = SearchCall(embedding, k, r.exc, r.results)
            /\ UNCHANGED <<instance, ids, index, req, loop>>

\* HNSWVectorStore.__init__(dim=D, max_elements=C): the arguments go to
\* hnswlib as they are.
HNSWVectorStore_init(D, C) == init_index(D, C)

\* The arguments of the constructions tried: the configuration of the
\* program, a dimension of 0, a negative capacity.
InitDims == {0, dim}
InitCapacities == {-1, max_elements}

\* A further store is constructed; the store under observation stays.
StoreInit ==
    \E D \in InitDims, C \in InitCapacities :
        /\ lastCall' = InitCall(D, C, HNSWVectorStore_init(D, C))
        /\ UNCHANGED <<instance, ids, index, req, loop>>

NextStore == StoreAdd \/ StoreSearch \/ StoreInit

SpecStore == InitStore /\ [][NextStore]_vars

\* ------------------------------------------------------ embedding service
Whitespace == {" ", "\n"}

RECURSIVE lstrip(_)
lstrip(s) == IF s # << >> /\ Head(s) \in Whitespace THEN lstrip(Tail(s)) ELSE s

RECURSIVE rstrip(_)
rstrip(s) ==
    IF s # << >> /\ s[Len(s)] \in Whitespace
    THEN rstrip(SubSeq(s, 1, Len(s) - 1))
    ELSE s

\* str.strip() on a text given as the sequence of its characters.
strip(s) == rstrip(lstrip(s))

\* The length of the vectors of the embedding model (_EMBED_DIM = 384): that
\* of the store.
EMBED_DIM == dim

\* The vector the embedding model yields for a non-blank text: a function of
\* the text alone.
Encode(text, n) == AxisVector(n, IF text[1] = "y" THEN 2 ELSE 1, 1)

\* embed_text without the test for a blank text.
embed_text_no_strip(text, backend_ok) ==
    IF text = << >> THEN None
    ELSE IF ~backend_ok THEN None
    ELSE Encode(text, EMBED_DIM)

\* embed_text returning what the backend had produced when it failed.
embed_text_partial(text, backend_ok) ==
    IF text = << >> \/ strip(text) = << >> THEN None
    ELSE IF ~backend_ok THEN Encode(text, EMBED_DIM - 1)
    ELSE Encode(text, EMBED_DIM)

\* embed_text: None for an empty or blank text and when the backend fails
\* (exception caught, or no embedding returned), else the model's vector.
\* The model is loaded when the application starts, before any request.
embed_text(text, backend_ok) ==
    IF text = << >> \/ strip(text) = << >> THEN None
    ELSE IF ~backend_ok THEN None
    ELSE Encode(text, EMBED_DIM)

\* What became of the embedding backend in a call of embed_text: not
\* reached ("none"), answered ("ok"), failed ("failed").
Backend(text, backend_ok) ==
    IF text = << >> \/ strip(text) = << >> THEN "none"
    ELSE IF backend_ok THEN "ok" ELSE "failed"

\* ------------------------------------------------------------ the requests
\* What the metadata source knows of each video: b has a blank title.
Video(id) ==
    CASE id = "a" -> [id |-> "a", title |-> <<"x">>, description |-> << >>]
      [] id = "b" -> [id |-> "b", title |-> <<" ">>, description |-> << >>]
      [] OTHER    -> [id |-> "c", title |-> <<"y">>, description |-> <<"x">>]

\* The video lists get_channel_videos can return: distinct videos.
VideoLists ==
    { vs \in UNION { [1..n -> VideoIds] : n \in 0..MaxVideos } :
        \A p, q \in 1..Len(vs) : p # q => vs[p] # vs[q] }

ChannelTitles == { << >>, <<" ">>, <<"x">> }

\* OnLoop for handlers run on a thread pool: any of them runs at any time.
OnLoop_threadpool(r) == TRUE

\* The handler of an async endpoint runs on the event loop: the loop takes a
\* pending handler when it is idle and, as nothing in process_query or in
\* process ever suspends, runs it until it ends.
OnLoop(r) == IF req[r].pc = "pending" THEN loop = 0 ELSE loop = r

\* NextPc leaving the loop one item early.
NextPc_skips_last(i, videos_sample) ==
    IF i < Len(videos_sample) THEN "embed" ELSE "seed"

\* The test of `for v in videos_sample`: the next item, or the seed.
NextPc(i, videos_sample) == IF i <= Len(videos_sample) THEN "embed" ELSE "seed"

\* Propagate with the exception caught and logged: process goes on to the
\* LLM call with no neighbours.
Propagate_swallowed(rq, exc) == [rq EXCEPT !.pc = "llm", !.seed_neighbors = << >>]

\* An exception of add or search is not caught in process: it leaves it.
Propagate(rq, exc) == [rq EXCEPT !.pc = "raised", !.exc = exc]

\* MAX_VIDEOS without the limit: every video is used.
MAX_VIDEOS_unlimited(videos) == Len(videos)

\* MAX_VIDEOS = min(len(videos), max_videos_for_llm)
MAX_VIDEOS(videos) ==
    IF Len(videos) < max_videos_for_llm THEN Len(videos) ELSE max_videos_for_llm

\* _build_prompt: the channel block, the videos, the task; never empty.
build_prompt(channel_title) == <<"C">> \o channel_title \o <<"T">>

\* What the LLM backend does with a request: answers with a JSON text,
\* answers with another text, fails.
LlmOutcomes == {"json", "raw", "failed"}

\* async_generate: it raises for an empty prompt only; an exception of the
\* backend is caught and comes back as the JSON text {"error": ...}.
async_generate(prompt, outcome) ==
    IF prompt = << >> THEN [exc |-> "Prompt is empty", text |-> "none"]
    ELSE IF outcome = "failed" THEN [exc |-> NoExc, text |-> "json"]
    ELSE [exc |-> NoExc, text |-> outcome]

\* The key under which process returns what came of the LLM call: "error"
\* when async_generate raised, "report" for its text, parsed or raw.
ResultKey(generated) == IF generated.exc # NoExc THEN "error" ELSE "report"

text_to_embed(v) == strip(v.title \o <<"\n", "\n">> \o v.description)

\* get_vector_store building a store at every call.
get_vector_store_rebuilds(inst, store_ids, store_index) ==
    [ids |-> << >>, index |-> << >>]

\* get_vector_store: the process-wide store, built empty when there is none
\* yet.
get_vector_store(inst, store_ids, store_index) ==
    IF inst
    THEN [ids |-> store_ids, index |-> store_index]
    ELSE [ids |-> << >>, index |-> << >>]

InitProc ==
    /\ instance = FALSE
    /\ ids = << >>
    /\ index = << >>
    /\ lastCall = NoCall
    /\ req = [r \in Requests |-> NoRequest]
    /\ loop = 0

\* A POST /query arrives: its handler is scheduled on the event loop.
Arrive(r) ==
    /\ req[r].pc = "idle"
    /\ req' = [req EXCEPT ![r].pc = "pending"]
    /\ UNCHANGED <<instance, ids, index, lastCall, loop>>

\* process_query up to the channel lookup, which finds nothing: 404.
NotFound(r) ==
    /\ req[r].pc = "pending"
    /\ OnLoop(r)
    /\ instance' = TRUE
    /\ ids' = get_vector_store(instance, ids, index).ids
    /\ index' = get_vector_store(instance, ids, index).index
    /\ req' = [req EXCEPT ![r].pc = "done", ![r].status = 404]
    /\ UNCHANGED <<lastCall, loop>>

\* process_query up to the head of the loop of process: MasterOrchestrator()
\* takes the process-wide store (get_vector_store builds it on first use),
\* the channel and its videos are fetched, the sample is cut.
Start(r) ==
    /\ req[r].pc = "pending"
    /\ OnLoop(r)
    /\ loop' = r
    /\ instance' = TRUE
    /\ \E channel_title \in ChannelTitles, videos \in VideoLists :
         LET videos_sample == SubSeq(videos, 1, MAX_VIDEOS(videos))
         IN req' = [req EXCEPT ![r] =
                [NoRequest EXCEPT !.pc = NextPc(1, videos_sample),
                                  !.channel_title = channel_title,
                                  !.videos = videos,
                                  !.videos_sample = videos_sample]]
    /\ ids' = get_vector_store(instance, ids, index).ids
    /\ index' = get_vector_store(instance, ids, index).index
    /\ UNCHANGED lastCall

\* One turn of the loop up to the call of add: the text is embedded; an item
\* without embedding is passed over.
Embed(r) ==
    /\ req[r].pc = "embed"
    /\ OnLoop(r)
    /\ \E backend_ok \in BOOLEAN :
         LET rq == req[r]
             v == Video(rq.videos_sample[rq.i])
             emb == embed_text(text_to_embed(v), backend_ok)
             called == [rq EXCEPT !.text = text_to_embed(v),
                                  !.backend = Backend(text_to_embed(v), backend_ok)]
         IN req' = [req EXCEPT ![r] =
                IF emb = None
                THEN [called EXCEPT !.i = rq.i + 1,
                                    !.skipped = rq.skipped \cup {v.id},
                                    !.pc = NextPc(rq.i + 1, rq.videos_sample)]
                ELSE [called EXCEPT !.emb = emb, !.pc = "add"]]
    /\ UNCHANGED <<instance, ids, index, lastCall, loop>>

\* self.vstore.add(emb, vid) returns or raises; stored += 1 on return.
AddReturn(r) ==
    /\ req[r].pc = "add"
    /\ OnLoop(r)
    /\ LET rq == req[r]
           vid == rq.videos_sample[rq.i]
           a == add(ids, index, rq.emb, vid)
       IN /\ ids' = a.ids
          /\ index' = a.index
          /\ lastCall' = AddCall(rq.emb, vid, a.exc)
          /\ req' = [req EXCEPT ![r] =
                IF a.exc = NoExc
                THEN [rq EXCEPT !.stored = rq.stored + 1,
                                !.inserted = Append(rq.inserted, vid),
                                !.emb = None,
                                !.i = rq.i + 1,
                                !.pc = NextPc(rq.i + 1, rq.videos_sample)]
                ELSE Propagate(rq, a.exc)]
    /\ UNCHANGED <<instance, loop>>

\* The seed: the channel title is embedded if there is one; without a seed
\* embedding the neighbour list is empty and the store is not asked.
Seed(r) ==
    /\ req[r].pc = "seed"
    /\ OnLoop(r)
    /\ \E backend_ok \in BOOLEAN :
         LET rq == req[r]
             seed_emb == IF rq.channel_title # << >>
                         THEN embed_text(rq.channel_title, backend_ok)
                         ELSE None
             called == [rq EXCEPT !.text = rq.channel_title,
                                  !.backend = Backend(rq.channel_title, backend_ok)]
         IN req' = [req EXCEPT ![r] =
                IF seed_emb = None
                THEN [called EXCEPT !.seed_neighbors = << >>, !.pc = "llm"]
                ELSE [called EXCEPT !.emb = seed_emb, !.pc = "search"]]
    /\ UNCHANGED <<instance, ids, index, lastCall, loop>>

\* self.vstore.search(seed_emb, k=top_k) returns or raises.
SearchReturn(r) ==
    /\ req[r].pc = "search"
    /\ OnLoop(r)
    /\ \E q \in search(ids, index, req[r].emb, top_k) :
         /\ lastCall' = SearchCall(req[r].emb, top_k, q.exc, q.results)
         /\ req' = [req EXCEPT ![r] =
                IF q.exc = NoExc
                THEN [req[r] EXCEPT !.seed_neighbors = q.results,
                                    !.emb = None,
                                    !.pc = "llm"]
                ELSE Propagate(req[r], q.exc)]
    /\ UNCHANGED <<instance, ids, index, loop>>

\* The prompt is built and the LLM called; process returns what came of it
\* with the neighbours.
Llm(r) ==
    /\ req[r].pc = "llm"
    /\ OnLoop(r)
    /\ \E outcome \in LlmOutcomes :
         LET generated == async_generate(build_prompt(req[r].channel_title), outcome)
         IN req' = [req EXCEPT ![r].pc = "returned",
                               ![r].llm = outcome,
                               ![r].result = ResultKey(generated)]
    /\ UNCHANGED <<instance, ids, index, lastCall, loop>>

\* process returned: process_query answers 200 and the handler ends.
Respond(r) ==
    /\ req[r].pc = "returned"
    /\ OnLoop(r)
    /\ loop' = 0
    /\ req' = [req EXCEPT ![r] = [NoRequest EXCEPT !.pc = "done", !.status = 200]]
    /\ UNCHANGED <<instance, ids, index, lastCall>>

\* process raised: `except Exception` of process_query answers 500.
Fail(r) ==
    /\ req[r].pc = "raised"
    /\ OnLoop(r)
    /\ loop' = 0
    /\ req' = [req EXCEPT ![r] = [NoRequest EXCEPT !.pc = "done", !.status = 500]]
    /\ UNCHANGED <<instance, ids, index, lastCall>>

NextProc ==
    \E r \in Requests :
        \/ Arrive(r)
        \/ NotFound(r)
        \/ Start(r)
        \/ Embed(r)
        \/ AddReturn(r)
        \/ Seed(r)
        \/ SearchReturn(r)
        \/ Llm(r)
        \/ Respond(r)
        \/ Fail(r)

SpecProc == InitProc /\ [][NextProc]_vars

\* ------------------------------------------------- claims on the store
\* In SpecStore every step that changes the state is one call of add or of
\* search; lastCall' describes it, the unprimed variables are the state the
\* call found.
IsAdd == lastCall'.op = "add"
IsSearch == lastCall'.op = "search"
ValidLength(v) == v # None /\ Len(v) = dim
WrongLength(v) == v # None /\ Len(v) # dim

\* C1: an add that raises (wrong-length vector, or full index) leaves the
\* list of external identifiers and the ANN contents, hence the entry
\* count, as they were before the call.
C1_FailedInsertLeavesIndexUnmodified ==
    [][ (IsAdd /\ lastCall'.exc # NoExc) => (ids' = ids /\ index' = index) ]_vars

\* C2: an add of a vector of the right length succeeds, appending one
\* element and touching no other, exactly while the index holds fewer than
\* max_elements elements, and raises the capacity error, changing nothing
\* in the index, exactly when it holds max_elements; the element count
\* never exceeds max_elements.
C2_CapacityExactlyAtLimit ==
    /\ [][ (IsAdd /\ ValidLength(lastCall'.embedding)) =>
             IF Len(index) < max_elements
             THEN /\ lastCall'.exc = NoExc
                  /\ Len(index') = Len(index) + 1
                  /\ SubSeq(index', 1, Len(index)) = index
             ELSE /\ lastCall'.exc = CapacityExceeded
                  /\ index' = index ]_vars
    /\ [](Len(index) <= max_elements)

\* C2 witness: the index is full and the add that found it full raised
\* the capacity error.
C2_Witness ==
    /\ lastCall.op = "add"
    /\ lastCall.exc = CapacityExceeded
    /\ Len(index) = max_elements

RECURSIVE Ascending(_)
Ascending(results) ==
    \/ Len(results) <= 1
    \/ /\ results[1][2] <= results[2][2]
       /\ Ascending(Tail(results))

\* C3: a search with k greater than the number n >= 1 of entries does not
\* raise and returns all n entries by ascending distance.
C3_QueryBeyondCountReturnsAll ==
    [][ ( /\ IsSearch
          /\ ValidLength(lastCall'.embedding)
          /\ Len(ids) = Len(index)
          /\ Len(index) >= 1
          /\ lastCall'.k > Len(index) ) =>
        ( /\ lastCall'.exc = NoExc
          /\ Len(lastCall'.results) = Len(index)
          /\ Ascending(lastCall'.results) ) ]_vars

\* C4: add and search called with a vector whose length is not dim raise
\* the dimension error at every fill level, the empty index included.
C4_WrongLengthAlwaysFails ==
    [][ ((IsAdd \/ IsSearch) /\ WrongLength(lastCall'.embedding)) =>
          lastCall'.exc = DimensionMismatch ]_vars

\* C5: while no add has succeeded (the index holds no element), a search
\* with a vector of the right length returns the empty list and does not
\* raise, for every k >= 0.
C5_QueryOnEmptyReturnsEmpty ==
    [][ (IsSearch /\ ValidLength(lastCall'.embedding) /\ Len(index) = 0) =>
          (lastCall'.exc = NoExc /\ lastCall'.results = << >>) ]_vars

\* ------------------------------------------- claims on the orchestrator
Range(f) == { f[x] : x \in DOMAIN f }

NeighborIds(rq) == { n[1] : n \in Range(rq.seed_neighbors) }

\* The external identifiers of the elements the ANN index holds.
IndexedIds == { ids[e.label + 1] : e \in { x \in Range(index) : x.label < Len(ids) } }

LoopFinished(rq) ==
    /\ rq.pc \in {"seed", "search", "llm", "returned", "raised"}
    /\ rq.i > Len(rq.videos_sample)

\* C6: a call of process in which every retained item yields no embedding
\* stores nothing, does not raise and has an empty neighbour list, whichever
\* calls came before it on the process-wide store.
C6_NothingEmbeddableGivesEmptyResult ==
    \A r \in Requests :
        ( /\ LoopFinished(req[r])
          /\ Len(req[r].videos_sample) >= 1
          /\ req[r].skipped = Range(req[r].videos_sample) ) =>
        ( /\ req[r].stored = 0
          /\ req[r].pc # "raised"
          /\ req[r].pc \in {"llm", "returned"} => req[r].seed_neighbors = << >> )

\* C7: an item without embedding is passed over: the step that passes over
\* it changes nothing in the store and does not raise; when process returns,
\* stored is the number of items it inserted, and no passed-over item is
\* among the inserted ones or in the neighbour list.
C7_SkippedItemNeitherStoredNorReturned ==
    /\ [][ \A r \in Requests :
             req'[r].skipped # req[r].skipped =>
               (ids' = ids /\ index' = index /\ req'[r].pc # "raised") ]_vars
    /\ [](\A r \in Requests :
             req[r].pc \in {"llm", "returned"} =>
               /\ req[r].stored = Len(req[r].inserted)
               /\ req[r].skipped \cap Range(req[r].inserted) = {}
               /\ req[r].skipped \cap NeighborIds(req[r]) = {})

\* C8: while the anchor query of a call runs, the loop of that call is over:
\* every retained item has been passed over or inserted, and every item the
\* call inserted is in the index that is queried.
C8_QueryAfterAllInsertions ==
    \A r \in Requests :
        req[r].pc = "search" =>
          /\ req[r].i > Len(req[r].videos_sample)
          /\ Range(req[r].videos_sample) =
                 req[r].skipped \cup Range(req[r].inserted)
          /\ Range(req[r].inserted) \subseteq IndexedIds

\* C8 witness: the anchor query runs after a batch of two insertions.
C8_Witness ==
    \E r \in Requests :
        /\ req[r].pc = "search"
        /\ Len(req[r].inserted) = 2

\* C9: at no time is one request inside add while another request is inside
\* add or inside search on the store.
C9_NoInsertOverlapsIndexCall ==
    \A r, s \in Requests :
        (r # s /\ req[r].pc = "add") => req[s].pc \notin {"add", "search"}

\* C9 witness: a request is inside add while another request is in flight.
C9_Witness ==
    \E r, s \in Requests :
        /\ r # s
        /\ req[r].pc = "add"
        /\ req[s].pc = "pending"

\* C10: when add or search raises inside process, process ends by raising
\* that exception, and a call that raised is answered with an error and
\* with nothing else.
C10_IndexFailureReachesCaller ==
    [][ \A r \in Requests :
          /\ ( /\ req[r].pc \in {"add", "search"}
               /\ req'[r].pc # req[r].pc
               /\ lastCall'.exc # NoExc ) =>
             ( req'[r].pc = "raised" /\ req'[r].exc = lastCall'.exc )
          /\ ( req[r].pc = "raised" /\ req'[r] # req[r] ) =>
             ( req'[r].pc = "done" /\ req'[r].status = 500 ) ]_vars

\* C10 witness: a request whose add or search raised has been answered 500.
C10_Witness ==
    \E r \in Requests :
        /\ req[r].pc = "done"
        /\ req[r].status = 500
        /\ lastCall.exc # NoExc

\* The position of a video in the list a request received (the videos of a
\* list are distinct).
PositionIn(videos, id) == CHOOSE p \in 1..Len(videos) : videos[p] = id

\* The retained items the loop has dealt with: those before item i.
Processed(rq) ==
    { rq.videos_sample[j] : j \in 1..(IF rq.i - 1 < Len(rq.videos_sample)
                                       THEN rq.i - 1 ELSE Len(rq.videos_sample)) }

\* C11: process retains the first min(len(videos), max_videos_for_llm)
\* videos in their order; the items it has embedded and inserted or passed
\* over are retained items, taken in that order, all of them once the loop
\* is over; and a call only ever raises with an exception of the index,
\* never because of the cut.
C11_OnlyThePrefixIsProcessed ==
    \A r \in Requests :
        LET rq == req[r]
            n == IF Len(rq.videos) < max_videos_for_llm
                 THEN Len(rq.videos) ELSE max_videos_for_llm
        IN rq.pc \in {"embed", "add", "seed", "search", "llm", "returned", "raised"} =>
             /\ Len(rq.videos_sample) = n
             /\ \A j \in 1..n : rq.videos_sample[j] = rq.videos[j]
             /\ rq.skipped \cup Range(rq.inserted) = Processed(rq)
             /\ \A p, q \in 1..Len(rq.inserted) :
                    p < q => PositionIn(rq.videos, rq.inserted[p])
                               < PositionIn(rq.videos, rq.inserted[q])
             /\ LoopFinished(rq) =>
                    rq.skipped \cup Range(rq.inserted) = { rq.videos[j] : j \in 1..n }
             /\ rq.pc = "raised" =>
                    rq.exc \in {DimensionMismatch, CapacityExceeded, NotContiguous}

\* C11 witness: a call that received more videos than it retains has
\* returned, having inserted the retained ones.
C11_Witness ==
    \E r \in Requests :
        /\ req[r].pc = "returned"
        /\ Len(req[r].videos) > max_videos_for_llm
        /\ Len(req[r].inserted) = max_videos_for_llm

\* C12: when the channel title is empty or blank, or its embedding is not
\* obtained, the seed step goes on to the LLM call with an empty neighbour
\* list: it does not raise and does not call search, whatever the store
\* holds; the list is the one process returns.
C12_NoSeedNoQuery ==
    [][ \A r \in Requests :
          /\ ( /\ req[r].pc = "seed"
               /\ req'[r] # req[r]
               /\ \/ strip(req[r].channel_title) = << >>
                  \/ req'[r].backend = "failed" ) =>
             ( /\ req'[r].pc = "llm"
               /\ req'[r].seed_neighbors = << >>
               /\ lastCall' = lastCall
               /\ ids' = ids
               /\ index' = index )
          /\ ( req[r].pc = "llm" /\ req'[r].pc = "returned" ) =>
             req'[r].seed_neighbors = req[r].seed_neighbors ]_vars

\* C12 witness: a call with a blank channel title is at the LLM call with
\* no neighbours while the store holds entries.
C12_Witness ==
    \E r \in Requests :
        /\ req[r].pc = "llm"
        /\ req[r].channel_title = <<" ">>
        /\ req[r].seed_neighbors = << >>
        /\ Len(index) >= 1

\* C13: whatever adds succeeded or failed before, the labels the index
\* holds are 0, 1, .., n-1 for its n elements, each element carrying the
\* label of its rank of insertion.
C13_LabelsAreSequential ==
    \A p \in 1..Len(index) : index[p].label = p - 1

\* The identifier and the distance search reports for an element of the
\* index, for the query vector v.
Reported(e, v) == <<ids[e.label + 1], cosine_distance(e.vec, v)>>

\* C14: a search that returns, on a store that holds elements, returns at
\* most k pairs by non-decreasing distance; each pair is the identifier and
\* the distance of a stored element; the first pair is at the least
\* distance of all stored elements, and every stored element nearer than
\* the last pair is in the list.
C14_QueryReturnsNearestAscending ==
    [][ ( /\ IsSearch
          /\ ValidLength(lastCall'.embedding)
          /\ Len(index) >= 1
          /\ lastCall'.exc = NoExc ) =>
        LET res == lastCall'.results
            v == lastCall'.embedding
            stored == { e \in Range(index) : e.label < Len(ids) }
        IN /\ Len(res) <= lastCall'.k
           /\ Ascending(res)
           /\ \A j \in 1..Len(res) : \E e \in stored : res[j] = Reported(e, v)
           /\ lastCall'.k >= 1 =>
                /\ Len(res) >= 1
                /\ \A e \in Range(index) : res[1][2] <= cosine_distance(e.vec, v)
                /\ \A e \in Range(index) :
                       cosine_distance(e.vec, v) < res[Len(res)][2] =>
                           \E j \in 1..Len(res) : res[j] = Reported(e, v) ]_vars

\* C14 witness: a search with k = 1 on a store of two elements at different
\* distances from the query has returned the nearer one.
C14_Witness ==
    /\ lastCall.op = "search"
    /\ lastCall.k = 1
    /\ Len(index) = 2
    /\ Len(lastCall.results) = 1
    /\ \E e \in Range(index) :
           cosine_distance(e.vec, lastCall.embedding) > lastCall.results[1][2]

\* C15: of two stored elements with different identifiers at the same
\* distance from the query, a search that lists the later-inserted one lists
\* the earlier-inserted one before it.
C15_TiesInInsertionOrder ==
    [][ ( /\ IsSearch
          /\ ValidLength(lastCall'.embedding)
          /\ lastCall'.exc = NoExc ) =>
        LET res == lastCall'.results
            v == lastCall'.embedding
        IN \A p, q \in 1..Len(index) :
             ( /\ p < q
               /\ index[p].label < Len(ids)
               /\ index[q].label < Len(ids)
               /\ cosine_distance(index[p].vec, v) = cosine_distance(index[q].vec, v)
               /\ ids[index[p].label + 1] # ids[index[q].label + 1] ) =>
             \A j \in 1..Len(res) :
                 res[j] = Reported(index[q], v) =>
                     \E i \in 1..(j - 1) : res[i] = Reported(index[p], v) ]_vars

\* C16: constructing a store with a dimension <= 0 or a capacity <= 0
\* raises.
C16_BadConfigurationRaises ==
    [][ ( /\ lastCall'.op = "init"
          /\ (lastCall'.dim <= 0 \/ lastCall'.max_elements <= 0) ) =>
        lastCall'.exc # NoExc ]_vars

IsPrefix(s, t) == Len(s) <= Len(t) /\ SubSeq(t, 1, Len(s)) = s

\* A handler takes the store: MasterOrchestrator() in process_query.
TakesStore(r) == req[r].pc = "pending" /\ req'[r].pc # "pending"

\* C17: the store is built at most once: once it exists it stays, a handler
\* that takes it gets it with its content, and no step removes an entry.
C17_BuiltOnceNeverShrinks ==
    [][ /\ instance => instance'
        /\ \A r \in Requests :
             (instance /\ TakesStore(r)) => (ids' = ids /\ index' = index)
        /\ IsPrefix(ids, ids')
        /\ IsPrefix(index, index') ]_vars

\* A second request is in process on the store the first one filled.
C17_Witness ==
    \E r, s \in Requests :
        /\ r # s
        /\ req[s].pc = "done" /\ req[s].status = 200
        /\ req[r].pc \in {"embed", "add", "seed", "search", "llm"}
        /\ Len(index) >= 1

\* The step is a call of embed_text by request r: a turn of the loop, or the
\* seed of a channel with a title.
CallsEmbedText(r) ==
    /\ req'[r] # req[r]
    /\ \/ req[r].pc = "embed"
       \/ req[r].pc = "seed" /\ req[r].channel_title # << >>

Blank(text) == \A p \in 1..Len(text) : text[p] \in Whitespace

\* C18: embed_text does not raise; it returns None for an empty or blank
\* text and when the backend fails, and a vector of full length otherwise.
C18_EmbedTextNoneOrComplete ==
    [][ \A r \in Requests : CallsEmbedText(r) =>
          LET text == req'[r].text
              emb == req'[r].emb
          IN /\ req'[r].pc # "raised"
             /\ (Blank(text) \/ req'[r].backend = "failed") => emb = None
             /\ (~Blank(text) /\ req'[r].backend = "ok") => Len(emb) = EMBED_DIM ]_vars

\* In one request embed_text has met a blank text, a failing backend and a
\* text it embedded: the last call failed, after an item was passed over for
\* its blank text and another was stored.
C18_Witness ==
    \E r \in Requests :
        /\ req[r].backend = "failed"
        /\ req[r].pc # "embed"
        /\ "b" \in req[r].skipped
        /\ Len(req[r].inserted) >= 1

\* The step is search(V, k=1) right after a successful add(V, S) of a
\* non-degenerate vector V of the right length.
QueriesWhatWasJustInserted ==
    /\ lastCall.op = "add"
    /\ lastCall.exc = NoExc
    /\ ValidLength(lastCall.embedding)
    /\ Norm(lastCall.embedding) # 0
    /\ IsSearch
    /\ lastCall'.embedding = lastCall.embedding
    /\ lastCall'.k = 1

\* C19: add(V, S) followed by search(V, k=1) returns S at distance 0,
\* whatever the index held before.
C19_InsertThenQueryReturnsIt ==
    [][ QueriesWhatWasJustInserted =>
          /\ lastCall'.exc = NoExc
          /\ lastCall'.results = << <<lastCall.video_id, 0>> >> ]_vars

\* Another identifier is stored with a vector of the direction of v.
SameDirectionStored(v, video_id) ==
    \E p \in 1..Len(index) :
        /\ ids[index[p].label + 1] # video_id
        /\ cosine_distance(index[p].vec, v) = 0

\* C19: add(V, S) followed by search(V, k=1) returns one entry, at distance
\* 0; it is S unless another identifier is stored with a vector of the
\* direction of V.
C19_InsertThenQueryReturnsItUnlessTied ==
    [][ QueriesWhatWasJustInserted =>
          /\ lastCall'.exc = NoExc
          /\ Len(lastCall'.results) = 1
          /\ lastCall'.results[1][2] = 0
          /\ ~SameDirectionStored(lastCall.embedding, lastCall.video_id) =>
                lastCall'.results[1][1] = lastCall.video_id ]_vars

\* search(V, k=1) has returned the last inserted entry, V being its vector,
\* out of an index that holds another entry, of another direction, before it.
C19_Witness ==
    /\ lastCall.op = "search" /\ lastCall.k = 1 /\ lastCall.exc = NoExc
    /\ Len(index) = 2
    /\ lastCall.embedding = index[2].vec
    /\ cosine_distance(index[1].vec, index[2].vec) # 0
    /\ lastCall.results = << <<ids[index[2].label + 1], 0>> >>

\* C20: when the call of the LLM backend failed, process returns its result
\* under the key "error" (with the neighbours), never under "report".
C20_LlmFailureReturnedAsError ==
    \A r \in Requests :
        (req[r].pc = "returned" /\ req[r].llm = "failed") => req[r].result = "error"

\* C21: every identifier in the neighbour list of a call of process is the
\* id of a retained item that this same call embedded and inserted.
C21_NeighborsAreOwnItems ==
    \A r \in Requests :
        req[r].pc \in {"llm", "returned"} =>
            NeighborIds(req[r]) \subseteq Range(req[r].inserted)

\* C22: len(ids) is the number of vectors the ANN index holds, in every
\* state, whatever calls of add and search came before, those that raised
\* included.
C22_IdsCountIsIndexCount == Len(ids) = Len(index)

\* C23: a list returned by search holds no external identifier twice.
C23_NoIdentifierTwice ==
    lastCall.op = "search" =>
        \A i, j \in 1..Len(lastCall.results) :
            lastCall.results[i][1] = lastCall.results[j][1] => i = j

\* C24: the label of every vector of the index is below len(ids); an add
\* that inserts a vector files it under a label whose place in ids holds the
\* video_id of that call, and leaves the vectors and their identifiers as
\* they were; so a search that returns hands back all k hits, none dropped
\* by the guard, each under the identifier of its vector.
C24_LabelsPointAtTheirIdentifier ==
    /\ [](\A p \in 1..Len(index) : index[p].label < Len(ids))
    /\ [][ (IsAdd /\ index' # index) =>
             /\ Len(index') = Len(index) + 1
             /\ index'[Len(index')].label < Len(ids')
             /\ ids'[index'[Len(index')].label + 1] = lastCall'.video_id
             /\ \A p \in 1..Len(index) :
                  /\ index'[p] = index[p]
                  /\ ids'[index[p].label + 1] = ids[index[p].label + 1] ]_vars
    /\ [][ ( /\ IsSearch /\ ValidLength(lastCall'.embedding)
             /\ Len(ids) >= 1 /\ lastCall'.exc = NoExc ) =>
             /\ Len(lastCall'.results) = lastCall'.k
             /\ \A j \in 1..Len(lastCall'.results) :
                  \E p \in 1..Len(index) :
                      lastCall'.results[j] = Reported(index[p], lastCall'.embedding) ]_vars

\* A search has returned both vectors of an index whose ids list is longer
\* than the index, an add having raised before.
C24_Witness ==
    /\ lastCall.op = "search" /\ lastCall.exc = NoExc
    /\ Len(index) = 2
    /\ Len(ids) > Len(index)
    /\ Len(lastCall.results) = 2

====
